---- MODULE Spec2Model ----
(***************************************************************************)
(* A model of rename_card.py (CardRenamerApp): the reel-code extraction    *)
(* over a mounted volume, the history store (last_reel, reel_history and   *)
(* the JSON file behind them) and the analysis / rename workers with their *)
(* deferred update_ui callbacks.                                           *)
(*                                                                         *)
(* Strings the code inspects character by character (file names, tag text, *)
(* reel codes, volume names) are sequences of one-character strings.       *)
(***************************************************************************)
EXTENDS Integers, Sequences, FiniteSets, TLC

(***************************************************************************)
(* Characters                                                              *)
(***************************************************************************)
UpperSeq ==
    <<"A","B","C","D","E","F","G","H","I","J","K","L","M",
      "N","O","P","Q","R","S","T","U","V","W","X","Y","Z">>

LowerSeq ==
    <<"a","b","c","d","e","f","g","h","i","j","k","l","m",
      "n","o","p","q","r","s","t","u","v","w","x","y","z">>

Digits == {"0","1","2","3","4","5","6","7","8","9"}

IsUpper(c) == \E i \in 1..Len(UpperSeq) : UpperSeq[i] = c

IsDigit(c) == c \in Digits

\* str.lower() on one character
LowerChar(c) ==
    IF IsUpper(c)
    THEN LowerSeq[CHOOSE i \in 1..Len(UpperSeq) : UpperSeq[i] = c]
    ELSE c

\* str.lower()
Lower(s) == [i \in 1..Len(s) |-> LowerChar(s[i])]

\* str.startswith(prefix)
StartsWith(s, prefix) ==
    /\ Len(s) >= Len(prefix)
    /\ SubSeq(s, 1, Len(prefix)) = prefix

\* the Python test  sub in s  on strings
Contains(s, sub) ==
    \E i \in 1..(Len(s) - Len(sub) + 1) : SubSeq(s, i, i + Len(sub) - 1) = sub

RECURSIVE SeqToSet(_)
SeqToSet(q) == IF q = <<>> THEN {} ELSE {Head(q)} \cup SeqToSet(Tail(q))

\* lexicographic order on character sequences over the characters used
CharRank(c) ==
    IF IsDigit(c) THEN CHOOSE n \in 0..9 : <<"0","1","2","3","4","5","6","7","8","9">>[n + 1] = c
    ELSE IF IsUpper(c) THEN 10 + (CHOOSE i \in 1..26 : UpperSeq[i] = c)
    ELSE IF c = "_" THEN 40
    ELSE IF \E i \in 1..26 : LowerSeq[i] = c THEN 40 + (CHOOSE i \in 1..26 : LowerSeq[i] = c)
    ELSE 5

RECURSIVE StrLess(_, _)
StrLess(a, b) ==
    IF b = <<>> THEN FALSE
    ELSE IF a = <<>> THEN TRUE
    ELSE IF CharRank(Head(a)) # CharRank(Head(b)) THEN CharRank(Head(a)) < CharRank(Head(b))
    ELSE StrLess(Tail(a), Tail(b))

\* sorted(S) for a set of strings
RECURSIVE Sorted(_)
Sorted(S) ==
    IF S = {} THEN <<>>
    ELSE LET m == CHOOSE x \in S : \A y \in S \ {x} : StrLess(x, y)
         IN  <<m>> \o Sorted(S \ {m})

(***************************************************************************)
(* REEL_PATTERN = re.compile(r'([A-Z]\d{3})')                              *)
(***************************************************************************)
ReelLen == 4

\* the pattern matches the characters of s at positions i .. i+3
MatchAt(s, i) ==
    /\ i >= 1
    /\ i + ReelLen - 1 <= Len(s)
    /\ IsUpper(s[i])
    /\ \A k \in 1..(ReelLen - 1) : IsDigit(s[i + k])

NoMatch == <<>>

\* a variant of REEL_match that is not anchored at the start of s
MatchUnanchored(s) ==
    IF \E i \in 1..Len(s) : MatchAt(s, i)
    THEN LET i == CHOOSE j \in 1..Len(s) : MatchAt(s, j) /\ \A k \in 1..(j - 1) : ~MatchAt(s, k)
         IN  SubSeq(s, i, i + ReelLen - 1)
    ELSE NoMatch

\* REEL_PATTERN.match(s): group(1), or NoMatch for None
REEL_match(s) == IF MatchAt(s, 1) THEN SubSeq(s, 1, ReelLen) ELSE NoMatch

\* REEL_PATTERN.search(s): group(1) of the leftmost match, or NoMatch
REEL_search(s) ==
    IF \E i \in 1..Len(s) : MatchAt(s, i)
    THEN LET i == CHOOSE j \in 1..Len(s) : MatchAt(s, j) /\ \A k \in 1..(j - 1) : ~MatchAt(s, k)
         IN  SubSeq(s, i, i + ReelLen - 1)
    ELSE NoMatch

\* REEL_PATTERN.findall(s): the non-overlapping matches, left to right
RECURSIVE FindallFrom(_, _)
FindallFrom(s, i) ==
    IF i > Len(s) THEN <<>>
    ELSE IF MatchAt(s, i) THEN <<SubSeq(s, i, i + ReelLen - 1)>> \o FindallFrom(s, i + ReelLen)
    ELSE FindallFrom(s, i + 1)

REEL_findall(s) == FindallFrom(s, 1)

(***************************************************************************)
(* File names and directory trees                                          *)
(*                                                                         *)
(* A file is [name, kind, elems, content]: kind "xml" is a well-formed XML *)
(* document whose elements (in document order) are elems, each            *)
(* [tag, text]; "badxml" is a document ET.parse rejects; "text" is a file  *)
(* read as text, whose characters are content; "unreadable" is a file      *)
(* open() refuses; "other" is any other file (its bytes are never read).   *)
(* A directory is [path, readable, files]: path is the sequence of         *)
(* directory names below the volume root, readable says whether the        *)
(* directory can be listed and entered.  A tree lists its directories in   *)
(* the order os.walk meets them, the root (path <<>>) first.               *)
(***************************************************************************)
VIDEO_EXTENSIONS ==
    { <<".","m","x","f">>, <<".","m","o","v">>, <<".","m","p","4">>,
      <<".","r","3","d">>, <<".","a","r","i">>, <<".","b","r","a","w">> }

MEDIAPRO_XML == <<"M","E","D","I","A","P","R","O",".","X","M","L">>
DISCMETA_XML == <<"D","I","S","C","M","E","T","A",".","X","M","L">>
CLIPINFO_XML == <<"C","L","I","P","I","N","F","O",".","X","M","L">>
RED_GLOB     == <<"*",".","{","R","D","C",",","R","M","D","}">>

METADATA_CONFIG ==
    << [name |-> "Sony XDCAM", kind |-> "files",
        files |-> <<MEDIAPRO_XML, DISCMETA_XML>>, dirs |-> <<>>, pattern |-> <<>>,
        is_text |-> FALSE, tags |-> <<"ReelName", "ClipName", "Title", "Name">>],
       [name |-> "Canon", kind |-> "pattern",
        files |-> <<>>, dirs |-> <<"CANON", "*">>, pattern |-> CLIPINFO_XML,
        is_text |-> FALSE, tags |-> <<"ReelName", "ClipName">>],
       [name |-> "Panasonic", kind |-> "pattern",
        files |-> <<>>, dirs |-> <<"CONTENTS", "CLIP", "*">>, pattern |-> CLIPINFO_XML,
        is_text |-> FALSE, tags |-> <<"ReelName", "ClipName">>],
       [name |-> "RED", kind |-> "pattern",
        files |-> <<>>, dirs |-> <<>>, pattern |-> RED_GLOB,
        is_text |-> TRUE, tags |-> <<>>] >>

OtherFile(n)      == [name |-> n, kind |-> "other", elems |-> <<>>, content |-> <<>>]
XmlFile(n, es)    == [name |-> n, kind |-> "xml", elems |-> es, content |-> <<>>]
BadXmlFile(n)     == [name |-> n, kind |-> "badxml", elems |-> <<>>, content |-> <<>>]
TextFile(n, c)    == [name |-> n, kind |-> "text", elems |-> <<>>, content |-> c]
UnreadableFile(n) == [name |-> n, kind |-> "unreadable", elems |-> <<>>, content |-> <<>>]

Dir(p, r, fs) == [path |-> p, readable |-> r, files |-> fs]

\* PurePath(name).suffix: from the last dot, unless that dot is the first or
\* the last character of the name
Suffix(n) ==
    LET dots == {i \in 1..Len(n) : n[i] = "."}
    IN  IF dots = {} THEN <<>>
        ELSE LET i == CHOOSE j \in dots : \A k \in dots : k <= j
             IN  IF 1 < i /\ i < Len(n) THEN SubSeq(n, i, Len(n)) ELSE <<>>

\* fnmatch of one path segment; the only special character the patterns of
\* METADATA_CONFIG use is "*" (braces are ordinary characters to pathlib)
RECURSIVE Fnmatch(_, _)
Fnmatch(n, pat) ==
    IF pat = <<>> THEN n = <<>>
    ELSE IF Head(pat) = "*"
         THEN \/ Fnmatch(n, Tail(pat))
              \/ n # <<>> /\ Fnmatch(Tail(n), pat)
    ELSE /\ n # <<>>
         /\ Head(n) = Head(pat)
         /\ Fnmatch(Tail(n), Tail(pat))

\* a directory path matches the directory segments of a glob pattern
DirMatch(p, segs) ==
    /\ Len(p) = Len(segs)
    /\ \A i \in 1..Len(p) : segs[i] = "*" \/ segs[i] = p[i]

\* a variant of Reachable in which the first directory that cannot be listed
\* ends the enumeration
ReachableUntilError(tree, d) ==
    \E i \in 1..Len(tree) : tree[i] = d /\ \A j \in 1..i : tree[j].readable

\* the directory and every directory above it can be listed and entered
Reachable(tree, d) ==
    \A i \in 1..Len(tree) :
        (Len(tree[i].path) <= Len(d.path)
            /\ SubSeq(d.path, 1, Len(tree[i].path)) = tree[i].path)
        => tree[i].readable

\* what one enumeration of the tree keeps: the os.walk loop keeps the media
\* files of every directory, a 'files' source the named files of the root, a
\* 'pattern' source the files its glob pattern matches
InDir(d, cfg) ==
    CASE cfg.kind = "walk"    -> TRUE
      [] cfg.kind = "files"   -> d.path = <<>>
      [] cfg.kind = "pattern" -> DirMatch(d.path, cfg.dirs)

Keep(f, cfg) ==
    CASE cfg.kind = "walk"    -> TRUE
      [] cfg.kind = "files"   -> \E i \in 1..Len(cfg.files) : f.name = cfg.files[i]
      [] cfg.kind = "pattern" -> Fnmatch(f.name, cfg.pattern)

RECURSIVE SelectFiles(_, _)
SelectFiles(fs, cfg) ==
    IF fs = <<>> THEN <<>>
    ELSE (IF Keep(Head(fs), cfg) THEN <<Head(fs)>> ELSE <<>>) \o SelectFiles(Tail(fs), cfg)

\* the files of the reachable directories from the i-th on that cfg keeps
RECURSIVE FilesOf(_, _, _)
FilesOf(tree, i, cfg) ==
    IF i > Len(tree) THEN <<>>
    ELSE (IF Reachable(tree, tree[i]) /\ InDir(tree[i], cfg)
          THEN SelectFiles(tree[i].files, cfg)
          ELSE <<>>) \o FilesOf(tree, i + 1, cfg)

(***************************************************************************)
(* Metadata readers                                                        *)
(***************************************************************************)
\* the codes one tag contributes: root.iter(tag), REEL_PATTERN.search(elem.text)
RECURSIVE TagReels(_, _)
TagReels(es, tag) ==
    IF es = <<>> THEN {}
    ELSE LET e == Head(es)
             m == REEL_search(e.text)
         IN  (IF e.tag = tag /\ e.text # <<>> /\ m # NoMatch THEN {m} ELSE {})
             \cup TagReels(Tail(es), tag)

\* _parse_xml_metadata: ET.parse raises on anything but a well-formed
\* document, and the except clause returns the empty set collected so far
ParseXmlMetadata(f, tags) ==
    IF f.kind = "xml"
    THEN UNION {TagReels(f.elems, tags[i]) : i \in 1..Len(tags)}
    ELSE {}

\* _parse_text_metadata
ParseTextMetadata(f) ==
    IF f.kind = "unreadable" THEN {} ELSE SeqToSet(REEL_findall(f.content))

\* a metadata file whose parse ends in the except clause
ParseFails(f, is_text) ==
    IF is_text THEN f.kind = "unreadable" ELSE f.kind # "xml"

\* the files one METADATA_CONFIG entry locates under the volume root
SourceFiles(tree, cfg) ==
    FilesOf(tree, 1, cfg)

SourceReels(tree, cfg) ==
    LET fs == SourceFiles(tree, cfg)
    IN  UNION { IF cfg.is_text THEN ParseTextMetadata(fs[i])
                ELSE ParseXmlMetadata(fs[i], cfg.tags) : i \in 1..Len(fs) }

\* extract_reel_from_metadata
ExtractReelFromMetadata(tree) ==
    UNION {SourceReels(tree, METADATA_CONFIG[i]) : i \in 1..Len(METADATA_CONFIG)}

(***************************************************************************)
(* Filename scan: the os.walk loop of _analyze_volume                      *)
(***************************************************************************)
\* a variant of IsMediaFile that compares the extension as it is written
IsMediaFileCaseSensitive(n) ==
    /\ ~StartsWith(n, <<".">>)
    /\ Suffix(n) \in VIDEO_EXTENSIONS

\* the test of lines 637-639 on one file name
IsMediaFile(n) ==
    /\ ~StartsWith(n, <<".">>)
    /\ Lower(Suffix(n)) \in VIDEO_EXTENSIONS

RECURSIVE MediaNames(_)
MediaNames(fs) ==
    IF fs = <<>> THEN <<>>
    ELSE (IF IsMediaFile(Head(fs).name) THEN <<Head(fs).name>> ELSE <<>>)
         \o MediaNames(Tail(fs))

\* the names appended to video_files, in walk order
WalkVideoFiles(tree) == MediaNames(FilesOf(tree, 1, [kind |-> "walk"]))

\* the codes the walk adds to reel_numbers
WalkReels(tree) ==
    LET vs == WalkVideoFiles(tree)
    IN  {REEL_match(vs[i]) : i \in 1..Len(vs)} \ {NoMatch}

(***************************************************************************)
(* The volumes and files of the checked configurations                     *)
(***************************************************************************)
A001 == <<"A","0","0","1">>
C010 == <<"C","0","1","0">>
D004 == <<"D","0","0","4">>

Untitled == <<"U","n","t","i","t","l","e","d">>
NoName   == <<"N","O","N","A","M","E">>
NoText   == <<>>

ReelNameC010 == <<[tag |-> "ReelName", text |-> C010]>>

\* media files named by reel code only: A001_1.mov, D004_2.MXF, readme.txt
TreeFiles ==
    << Dir(<<>>, TRUE,
           << OtherFile(<<"A","0","0","1","_","1",".","m","o","v">>),
              OtherFile(<<"D","0","0","4","_","2",".","M","X","F">>),
              OtherFile(<<"r","e","a","d","m","e",".","t","x","t">>) >>) >>

\* a Sony metadata file naming C010 beside a media file named A001_1.mov
TreeBoth ==
    << Dir(<<>>, TRUE,
           << XmlFile(MEDIAPRO_XML, ReelNameC010),
              OtherFile(<<"A","0","0","1","_","1",".","m","o","v">>) >>) >>

\* a Sony metadata file naming C010, media files without a code: clip_9.mp4
TreeMeta ==
    << Dir(<<>>, TRUE,
           << XmlFile(MEDIAPRO_XML, ReelNameC010),
              OtherFile(<<"c","l","i","p","_","9",".","m","p","4">>) >>) >>

\* no media file and no metadata
TreeNone ==
    << Dir(<<>>, TRUE, << OtherFile(<<"r","e","a","d","m","e",".","t","x","t">>) >>) >>

\* the cards mounted when the model starts: a sequence of [name, tree]
VolumeSetups ==
    { <<[name |-> Untitled, tree |-> TreeBoth]>>,
      <<[name |-> NoName, tree |-> TreeFiles]>>,
      <<[name |-> Untitled, tree |-> TreeMeta]>>,
      <<[name |-> NoName, tree |-> TreeNone]>> }

(***************************************************************************)
(* The volumes of the scan configurations: every file name and every tag   *)
(* text of up to MaxNameLen characters over NameChars, and the trees of    *)
(* the cases the extraction distinguishes                                  *)
(***************************************************************************)
B002 == <<"B","0","0","2">>

NameChars == {"A", "a", "0", "_"}

\* the longest file stem and tag text enumerated
MaxNameLen == 5

\* the strings of at most n characters over NameChars
RECURSIVE Strings(_)
Strings(n) ==
    IF n = 0 THEN {<<>>}
    ELSE LET S == Strings(n - 1)
         IN  S \cup {Append(t, c) : t \in {u \in S : Len(u) = n - 1}, c \in NameChars}

DotMov == <<".","m","o","v">>

\* a volume holding the one media file s.mov
NameTree(s) == << Dir(<<>>, TRUE, << OtherFile(s \o DotMov) >>) >>

\* a volume holding MEDIAPRO.XML with the one element <ReelName>s</ReelName>
TextTree(s) ==
    << Dir(<<>>, TRUE, << XmlFile(MEDIAPRO_XML, <<[tag |-> "ReelName", text |-> s]>>) >>) >>

\* A001_clip01.mov, A001_clip02.mov, B002_clip01.mxf, readme.txt
TreeScenarioA ==
    << Dir(<<>>, TRUE,
           << OtherFile(<<"A","0","0","1","_","c","l","i","p","0","1",".","m","o","v">>),
              OtherFile(<<"A","0","0","1","_","c","l","i","p","0","2",".","m","o","v">>),
              OtherFile(<<"B","0","0","2","_","c","l","i","p","0","1",".","m","x","f">>),
              OtherFile(<<"r","e","a","d","m","e",".","t","x","t">>) >>) >>

\* names that differ in the leading dot and in the extension
TreeExtensions ==
    << Dir(<<>>, TRUE,
           << OtherFile(<<".","A","0","0","1",".","m","o","v">>),
              OtherFile(<<"A","0","0","1",".","M","o","V">>),
              OtherFile(<<"B","0","0","2",".","B","R","A","W">>),
              OtherFile(<<"C","0","1","0",".","m","p","4",".","b","a","k">>),
              OtherFile(<<"D","0","0","4",".","m","o","v","x">>),
              OtherFile(<<"D","0","0","4","m","o","v">>),
              OtherFile(<<"C","0","1","0",".","a","r","i">>),
              OtherFile(<<"D","0","0","4",".","R","3","D">>),
              OtherFile(<<"D","0","0","4",".">>),
              OtherFile(<<"c","l","i","p",".","m","p","4">>) >>) >>

\* a directory that cannot be listed (with a directory below it) between
\* readable ones
TreeUnreadableDir ==
    << Dir(<<>>, TRUE, << OtherFile(<<"A","0","0","1","_","1",".","m","o","v">>) >>),
       Dir(<<"P">>, FALSE, << OtherFile(<<"C","0","1","0","_","1",".","m","o","v">>) >>),
       Dir(<<"P", "Q">>, TRUE, << OtherFile(<<"C","0","1","0","_","2",".","m","o","v">>) >>),
       Dir(<<"R">>, TRUE, << OtherFile(<<"B","0","0","2","_","1",".","m","o","v">>) >>),
       Dir(<<"R", "S">>, TRUE, << OtherFile(<<"D","0","0","4","_","1",".","m","p","4">>) >>) >>

\* the first directory below the root cannot be listed
TreeUnreadableFirst ==
    << Dir(<<>>, TRUE, << >>),
       Dir(<<"P">>, FALSE, << OtherFile(<<"C","0","1","0","_","1",".","m","o","v">>) >>),
       Dir(<<"R">>, TRUE, << OtherFile(<<"B","0","0","2","_","1",".","m","o","v">>) >>) >>

ReelNameA001 == <<[tag |-> "ReelName", text |-> A001]>>
ClipNameD004 == <<[tag |-> "ClipName", text |-> D004]>>

\* a malformed MEDIAPRO.XML beside a good DISCMETA.XML, a good Canon file
\* and a media file
TreeBadXml ==
    << Dir(<<>>, TRUE,
           << BadXmlFile(MEDIAPRO_XML),
              XmlFile(DISCMETA_XML, ReelNameA001),
              OtherFile(<<"B","0","0","2","_","1",".","m","o","v">>) >>),
       Dir(<<"CANON">>, TRUE, << >>),
       Dir(<<"CANON", "X">>, TRUE, << XmlFile(CLIPINFO_XML, ClipNameD004) >>) >>

\* a MEDIAPRO.XML that cannot be opened beside a good Panasonic file, a RED
\* text file B002.RMD naming C010 and a media file
TreeUnreadableXml ==
    << Dir(<<>>, TRUE,
           << UnreadableFile(MEDIAPRO_XML),
              TextFile(<<"B","0","0","2",".","R","M","D">>, C010),
              OtherFile(<<"B","0","0","2","_","1",".","m","o","v">>) >>),
       Dir(<<"CONTENTS">>, TRUE, << >>),
       Dir(<<"CONTENTS", "CLIP">>, TRUE, << >>),
       Dir(<<"CONTENTS", "CLIP", "X">>, TRUE, << XmlFile(CLIPINFO_XML, ClipNameD004) >>) >>

\* one element whose text names two codes: "A001 B002"
TreeTwoCodes ==
    << Dir(<<>>, TRUE,
           << XmlFile(MEDIAPRO_XML,
                      <<[tag |-> "ReelName",
                         text |-> <<"A","0","0","1"," ","B","0","0","2">>]>>) >>) >>

\* elements with other tags, without text, and below the root element
TreeTags ==
    << Dir(<<>>, TRUE,
           << XmlFile(MEDIAPRO_XML,
                      <<[tag |-> "Comment", text |-> A001],
                        [tag |-> "Title", text |-> <<>>],
                        [tag |-> "Name", text |-> <<"r","e","e","l","_","D","0","0","4">>],
                        [tag |-> "ClipName", text |-> B002]>>) >>) >>

\* a RED text file A001.RDC directly under the root, naming B002 and D004
TreeRed ==
    << Dir(<<>>, TRUE,
           << TextFile(<<"A","0","0","1",".","R","D","C">>,
                       <<"B","0","0","2"," ","D","0","0","4">>),
              OtherFile(<<"c","l","i","p","_","9",".","m","p","4">>) >>) >>

\* a file whose name is the RED pattern itself, character by character
TreeBraces ==
    << Dir(<<>>, TRUE,
           << TextFile(<<"x",".","{","R","D","C",",","R","M","D","}">>, C010) >>) >>

\* a volume whose root directory cannot be searched: stat() of any path below
\* it fails with EACCES
TreeUnreadableRoot ==
    << Dir(<<>>, FALSE,
           << XmlFile(MEDIAPRO_XML, ReelNameC010),
              OtherFile(<<"A","0","0","1","_","1",".","m","o","v">>) >>) >>

CaseTrees ==
    { TreeFiles, TreeBoth, TreeMeta, TreeNone, TreeScenarioA, TreeExtensions,
      TreeUnreadableDir, TreeUnreadableFirst, TreeBadXml, TreeUnreadableXml,
      TreeTwoCodes, TreeTags, TreeRed, TreeBraces }

ScanTrees ==
    CaseTrees \cup {NameTree(t) : t \in Strings(MaxNameLen)}
              \cup {TextTree(t) : t \in Strings(MaxNameLen)}

(***************************************************************************)
(* The history file: what json.load makes of it                            *)
(*                                                                         *)
(* kind "absent": no file; "unreadable": open() raises; "corrupt": not     *)
(* JSON; "list": JSON that is not an object; "dict": a JSON object, with   *)
(* has_last / has_hist telling which of the keys last_reel and             *)
(* reel_history it holds, and hist_ok whether reel_history is a list of    *)
(* strings (otherwise it is a number, which set() refuses).                *)
(***************************************************************************)
JsonFile(k, hl, l, hh, ok, h) ==
    [kind |-> k, has_last |-> hl, last_reel |-> l, has_hist |-> hh, hist_ok |-> ok,
     reel_history |-> h]

AbsentFile     == JsonFile("absent", FALSE, NoText, FALSE, TRUE, <<>>)
UnreadableJson == JsonFile("unreadable", FALSE, NoText, FALSE, TRUE, <<>>)
CorruptFile    == JsonFile("corrupt", FALSE, NoText, FALSE, TRUE, <<>>)
ListFile       == JsonFile("list", FALSE, NoText, FALSE, TRUE, <<>>)
EmptyDict      == JsonFile("dict", FALSE, NoText, FALSE, TRUE, <<>>)
RecordFile(l, h) == JsonFile("dict", TRUE, l, TRUE, TRUE, h)
BadHistFile    == JsonFile("dict", TRUE, NoText, TRUE, FALSE, <<>>)

\* the history files the model starts from
InitialFiles ==
    { AbsentFile, UnreadableJson, CorruptFile, ListFile, EmptyDict, BadHistFile,
      RecordFile(A001, <<A001>>) }

Paths == {"home", "custom"}

\* str(Path.home() / '.card_renamer_config.json')
DefaultConfigPath == "home"

\* the settings file ~/.card_renamer_settings.json is absent or holds no
\* usable JSON: load_settings returns {}
NoSettings == "none"

\* __init__, line 60: self.settings.get('config_path', <the default path>)
SettingsPath(st) == IF st = NoSettings THEN DefaultConfigPath ELSE st

\* save_settings: the settings file after _save_json_file wrote path to it
SaveSettings(st, path, outcome) ==
    CASE outcome = "ok"      -> path
      [] outcome = "refused" -> st
      [] outcome = "torn"    -> NoSettings

(***************************************************************************)
(* Bounds                                                                  *)
(***************************************************************************)
\* rename worker threads that may be in flight together
MaxRenames == 1

(***************************************************************************)
(* State                                                                   *)
(***************************************************************************)
VARIABLES
    cards,            \* the mounted cards: a sequence of [name, tree]
    disk,             \* the files behind config_file: [Paths -> JsonFile]
    settings,         \* the config_path the settings file holds, or NoSettings
    proc,             \* "off" | "running"
    startup_error,    \* the last __init__ ended in an uncaught exception
    mainpc,           \* the main thread: "idle", or "record" inside _do_rename's update_ui
    main_slot,        \* the rename whose update_ui the main thread is in
    log,              \* kinds of message put on log_queue by this process
    config_file,      \* self.config_file
    last_reel,        \* self.last_reel
    reel_history,     \* self.reel_history
    volume_paths,     \* self.volume_paths (its keys)
    volume_values,    \* self.volume_combo['values']
    selected_volume,  \* self.selected_volume
    selected_reel,    \* self.selected_reel
    reel_values,      \* self.reel_combo['values']
    rename_btn,       \* self.rename_btn is enabled
    analyze_btn,      \* self.analyze_btn is enabled
    refresh_btn,      \* self.refresh_btn is enabled
    warning_label,    \* the codes self.warning_label names ({}: no text)
    video_files,      \* self.video_files
    reel_numbers,     \* self.reel_numbers
    apc,              \* the analysis worker and its callback
    a_volume,         \* _analyze_volume's volume_name
    a_duplicates,     \* _analyze_volume's duplicates
    renames,          \* the rename workers: [1..MaxRenames -> [pc, old, new, success, warned]]
    fpc,              \* the refresh worker and its callback
    f_volumes         \* _refresh_volumes' volumes

osVars    == <<cards, disk, settings>>
ctlVars   == <<proc, startup_error, mainpc, main_slot, log>>
storeVars == <<config_file, last_reel, reel_history>>
volVars   == <<volume_paths, volume_values, selected_volume>>
reelVars  == <<selected_reel, reel_values, warning_label>>
btnVars   == <<rename_btn, analyze_btn, refresh_btn>>
scanVars  == <<video_files, reel_numbers>>
aVars     == <<apc, a_volume, a_duplicates>>
fVars     == <<fpc, f_volumes>>

vars == <<osVars, ctlVars, storeVars, volVars, reelVars, btnVars, scanVars, aVars,
          renames, fVars>>

Slots == 1..MaxRenames

IdleSlot == [pc |-> "idle", old |-> NoText, new |-> NoText, success |-> FALSE,
             warned |-> FALSE]

(***************************************************************************)
(* The operating system                                                    *)
(***************************************************************************)
\* _scan_volumes: the names under /Volumes
ScanVolumes == {cards[c].name : c \in DOMAIN cards}

\* the tree below /Volumes/<name>; a path that does not exist holds nothing
TreeOf(name) ==
    IF \E c \in DOMAIN cards : cards[c].name = name
    THEN cards[CHOOSE c \in DOMAIN cards : cards[c].name = name].tree
    ELSE <<>>

\* refresh_volumes / _refresh_volumes.update_ui: untitled[0] if untitled else
\* volumes[0], in the order iterdir() happened to list the volumes
RefreshSelection(volumes, current) ==
    LET untitled == {v \in volumes : Contains(v, Untitled)}
    IN  IF volumes = {} THEN {current}
        ELSE IF untitled # {} THEN untitled
        ELSE volumes

(***************************************************************************)
(* The history store                                                       *)
(***************************************************************************)
RECURSIVE Perms(_)
\* list(a_set): the elements in some order
Perms(S) ==
    IF S = {} THEN {<<>>}
    ELSE UNION {{<<x>> \o q : q \in Perms(S \ {x})} : x \in S}

\* _load_json_file: the parsed value, or the default {} when the file is
\* absent or open() or json.load raise
LoadJsonFile(f) ==
    IF f.kind \in {"absent", "unreadable", "corrupt"} THEN EmptyDict ELSE f

\* __init__, lines 72-74, raises: .get on a value that is no dict, or set()
\* on a value that is no list
InitRaises(cfg) ==
    \/ cfg.kind # "dict"
    \/ cfg.has_hist /\ ~cfg.hist_ok

\* self.config.get('last_reel', '')
ConfigLastReel(cfg) == IF cfg.has_last THEN cfg.last_reel ELSE NoText

\* set(self.config.get('reel_history', []))
ConfigReelHistory(cfg) == IF cfg.has_hist THEN SeqToSet(cfg.reel_history) ELSE {}

WriteOutcomes == {"ok", "refused", "torn"}

\* _save_json_file: "ok" writes data; "refused" raises before the file is
\* opened for writing; "torn" raises after open(.., 'w') truncated the file
SaveJsonFile(d, path, data, outcome) ==
    CASE outcome = "ok"      -> [d EXCEPT ![path] = data]
      [] outcome = "refused" -> d
      [] outcome = "torn"    -> [d EXCEPT ![path] = CorruptFile]

\* a variant of SaveJsonLog whose except clause passes silently
SaveJsonSilent(lg, outcome) == lg

\* the except clause of _save_json_file logs the failure
SaveJsonLog(lg, outcome) == IF outcome = "ok" THEN lg ELSE lg \cup {"save_failed"}

\* a variant of ConfigForSave that stores last_reel and leaves reel_history empty
ConfigForSaveNoHistory(last, q) == RecordFile(last, <<>>)

\* save_config, lines 419-420: self.config with its two keys set, q being
\* list(self.reel_history).  Both keys are set before every write and read
\* only by __init__, so self.config is not carried between the steps.
ConfigForSave(last, q) == RecordFile(last, q)

\* save_config with the history hist: the primed disk and log
SaveConfig(last, hist, outcome) ==
    \E q \in Perms(hist) :
        /\ disk' = SaveJsonFile(disk, config_file, ConfigForSave(last, q), outcome)
        /\ log' = SaveJsonLog(log, outcome)

\* a variant of CheckReelDuplicate that compares with the last reel only
CheckLastReelOnly(reel) == reel = last_reel

\* check_reel_duplicate
CheckReelDuplicate(reel) == reel \in reel_history

(***************************************************************************)
(* Start and stop of the process                                           *)
(***************************************************************************)
Init ==
    /\ cards \in VolumeSetups
    /\ disk \in {[p \in Paths |-> IF p = DefaultConfigPath THEN f ELSE AbsentFile] :
                    f \in InitialFiles}
    /\ settings = NoSettings
    /\ proc = "off"
    /\ startup_error = FALSE
    /\ mainpc = "idle"
    /\ main_slot = 0
    /\ log = {}
    /\ config_file = DefaultConfigPath
    /\ last_reel = NoText
    /\ reel_history = {}
    /\ volume_paths = {}
    /\ volume_values = {}
    /\ selected_volume = NoText
    /\ selected_reel = NoText
    /\ reel_values = <<>>
    /\ rename_btn = FALSE
    /\ analyze_btn = FALSE
    /\ refresh_btn = FALSE
    /\ warning_label = {}
    /\ video_files = <<>>
    /\ reel_numbers = {}
    /\ apc = "idle"
    /\ a_volume = NoText
    /\ a_duplicates = {}
    /\ renames = [s \in Slots |-> IdleSlot]
    /\ fpc = "idle"
    /\ f_volumes = {}

\* the fields a process that is not running does not have
NoProcess ==
    /\ mainpc' = "idle"
    /\ main_slot' = 0
    /\ log' = {}
    /\ config_file' = DefaultConfigPath
    /\ last_reel' = NoText
    /\ reel_history' = {}
    /\ volume_paths' = {}
    /\ volume_values' = {}
    /\ selected_volume' = NoText
    /\ selected_reel' = NoText
    /\ reel_values' = <<>>
    /\ rename_btn' = FALSE
    /\ analyze_btn' = FALSE
    /\ refresh_btn' = FALSE
    /\ warning_label' = {}
    /\ video_files' = <<>>
    /\ reel_numbers' = {}
    /\ apc' = "idle"
    /\ a_volume' = NoText
    /\ a_duplicates' = {}
    /\ renames' = [s \in Slots |-> IdleSlot]
    /\ fpc' = "idle"
    /\ f_volumes' = {}

\* CardRenamerApp.__init__ on a history file it cannot use: the exception
\* leaves main() and the process ends
StartupFails ==
    /\ proc = "off"
    /\ InitRaises(LoadJsonFile(disk[SettingsPath(settings)]))
    /\ startup_error' = TRUE
    /\ UNCHANGED <<osVars, proc, mainpc, main_slot, log, storeVars, volVars, reelVars,
                   btnVars, scanVars, aVars, renames, fVars>>

\* CardRenamerApp.__init__: load_config, the initial widget states of
\* setup_ui, refresh_volumes
Startup ==
    /\ proc = "off"
    /\ ~InitRaises(LoadJsonFile(disk[SettingsPath(settings)]))
    /\ startup_error' = FALSE
    /\ proc' = "running"
    /\ config_file' = SettingsPath(settings)
    /\ last_reel' = ConfigLastReel(LoadJsonFile(disk[SettingsPath(settings)]))
    /\ reel_history' = ConfigReelHistory(LoadJsonFile(disk[SettingsPath(settings)]))
    /\ volume_paths' = ScanVolumes
    /\ volume_values' = ScanVolumes
    /\ selected_volume' \in RefreshSelection(ScanVolumes, NoText)
    /\ analyze_btn' = TRUE
    /\ refresh_btn' = TRUE
    /\ rename_btn' = FALSE
    /\ UNCHANGED <<osVars, mainpc, main_slot, log, reelVars, scanVars, aVars, renames,
                   fVars>>

\* the process ends (the window is closed, or the process is killed): the
\* daemon threads end with it
Exit ==
    /\ proc = "running"
    /\ proc' = "off"
    /\ NoProcess
    /\ UNCHANGED <<osVars, startup_error>>

(***************************************************************************)
(* Handlers of the main thread.  Tk runs one handler or deferred callback  *)
(* at a time; a handler that asks the user (askyesno) is one step, with    *)
(* the answer as its input.  A handler that returns early changes nothing  *)
(* and is a stuttering step.                                               *)
(***************************************************************************)
MainIdle == proc = "running" /\ mainpc = "idle"

\* a variant of ClearHistory that resets last_reel as well
ClearHistoryAndLast(outcome) ==
    /\ MainIdle
    /\ reel_history # {}
    /\ reel_history' = {}
    /\ last_reel' = NoText
    /\ SaveConfig(NoText, {}, outcome)
    /\ UNCHANGED <<cards, settings, proc, startup_error, mainpc, main_slot, config_file,
                   volVars, reelVars, btnVars, scanVars, aVars, renames, fVars>>

\* clear_history, the user answering yes
ClearHistory(outcome) ==
    /\ MainIdle
    /\ reel_history # {}
    /\ reel_history' = {}
    /\ SaveConfig(last_reel, {}, outcome)
    /\ UNCHANGED <<cards, settings, proc, startup_error, mainpc, main_slot, config_file,
                   last_reel, volVars, reelVars, btnVars, scanVars, aVars, renames, fVars>>

\* choose_config_path, the user having picked the folder of the path new.
\* The migration is offered when the active file exists at another path;
\* migrate is the answer, copy the outcome of writing the copy, save the
\* outcome of save_settings.  A copy that fails (the old file cannot be read
\* or parsed, or the new one cannot be written) is logged and ends the
\* handler before the path is changed.
ChooseConfigPath(new, migrate, copy, save) ==
    /\ MainIdle
    /\ LET old == disk[config_file]
           offered == old.kind # "absent" /\ config_file # new
           loads == old.kind \in {"list", "dict"}
           copies == offered /\ migrate
       IN  /\ ~copies => copy = "ok"
           /\ (copies /\ ~loads) => copy = "refused"
           /\ IF copies /\ copy # "ok"
              THEN /\ save = "ok"
                   /\ disk' = IF loads THEN SaveJsonFile(disk, new, old, copy) ELSE disk
                   /\ log' = log \cup {"migrate_failed"}
                   /\ UNCHANGED <<config_file, settings>>
              ELSE /\ disk' = IF copies THEN SaveJsonFile(disk, new, old, "ok") ELSE disk
                   /\ config_file' = new
                   /\ settings' = SaveSettings(settings, new, save)
                   /\ log' = SaveJsonLog(log, save)
    /\ UNCHANGED <<cards, proc, startup_error, mainpc, main_slot, last_reel, reel_history,
                   volVars, reelVars, btnVars, scanVars, aVars, renames, fVars>>

\* do_refresh
DoRefresh ==
    /\ MainIdle
    /\ refresh_btn
    /\ fpc = "idle"
    /\ refresh_btn' = FALSE
    /\ fpc' = "spawned"
    /\ UNCHANGED <<osVars, ctlVars, storeVars, volVars, reelVars, rename_btn, analyze_btn,
                   scanVars, aVars, renames, f_volumes>>

\* _refresh_volumes, on its worker thread
RefreshScan ==
    /\ proc = "running"
    /\ fpc = "spawned"
    /\ volume_paths' = ScanVolumes
    /\ f_volumes' = ScanVolumes
    /\ fpc' = "posted"
    /\ UNCHANGED <<osVars, ctlVars, storeVars, volume_values, selected_volume, reelVars,
                   btnVars, scanVars, aVars, renames>>

\* _refresh_volumes.update_ui
RefreshUpdateUI ==
    /\ MainIdle
    /\ fpc = "posted"
    /\ volume_values' = f_volumes
    /\ selected_volume' \in RefreshSelection(f_volumes, selected_volume)
    /\ refresh_btn' = TRUE
    /\ fpc' = "idle"
    /\ f_volumes' = {}
    /\ UNCHANGED <<osVars, ctlVars, storeVars, volume_paths, reelVars, rename_btn,
                   analyze_btn, scanVars, aVars, renames>>

\* the user picks v in volume_combo, then on_volume_selected
OnVolumeSelected(v) ==
    /\ MainIdle
    /\ v \in volume_values
    /\ selected_volume' = v
    /\ video_files' = <<>>
    /\ reel_numbers' = {}
    /\ reel_values' = <<>>
    /\ selected_reel' = NoText
    /\ rename_btn' = FALSE
    /\ warning_label' = {}
    /\ UNCHANGED <<osVars, ctlVars, storeVars, volume_paths, volume_values, analyze_btn,
                   refresh_btn, aVars, renames, fVars>>

\* the user picks r in reel_combo (a readonly combobox: no handler runs)
SelectReel(r) ==
    /\ MainIdle
    /\ r \in SeqToSet(reel_values)
    /\ r # selected_reel
    /\ selected_reel' = r
    /\ UNCHANGED <<osVars, ctlVars, storeVars, volVars, reel_values, warning_label,
                   btnVars, scanVars, aVars, renames, fVars>>

(***************************************************************************)
(* Analysis: do_analysis, _analyze_volume on its worker thread, update_ui  *)
(***************************************************************************)
\* a variant of DoAnalysis that leaves analyze_btn enabled
DoAnalysisKeepsButton ==
    /\ MainIdle
    /\ analyze_btn
    /\ selected_volume # NoText
    /\ warning_label' = {}
    /\ apc' = "spawned"
    /\ UNCHANGED <<osVars, ctlVars, storeVars, volVars, selected_reel, reel_values,
                   btnVars, scanVars, a_volume, a_duplicates, renames, fVars>>

\* do_analysis, the command of analyze_btn: a disabled button does not run it
DoAnalysis ==
    /\ MainIdle
    /\ analyze_btn
    /\ selected_volume # NoText
    /\ analyze_btn' = FALSE
    /\ warning_label' = {}
    /\ apc' = "spawned"
    /\ UNCHANGED <<osVars, ctlVars, storeVars, volVars, selected_reel, reel_values,
                   rename_btn, refresh_btn, scanVars, a_volume, a_duplicates, renames,
                   fVars>>

\* _analyze_volume, lines 616-621
AnalyzeStart ==
    /\ proc = "running"
    /\ apc = "spawned"
    /\ a_volume' = selected_volume
    /\ video_files' = <<>>
    /\ reel_numbers' = {}
    /\ apc' = "started"
    /\ UNCHANGED <<osVars, ctlVars, storeVars, volVars, reelVars, btnVars, a_duplicates,
                   renames, fVars>>

\* the except clauses of _parse_xml_metadata and _parse_text_metadata log
\* the file they could not read
ParseErrorLog(tree) ==
    IF \E i \in 1..Len(METADATA_CONFIG) :
          \E k \in 1..Len(SourceFiles(tree, METADATA_CONFIG[i])) :
             ParseFails(SourceFiles(tree, METADATA_CONFIG[i])[k], METADATA_CONFIG[i].is_text)
    THEN {"parse_error"}
    ELSE {}

\* filepath.exists() of line 491 raises: Path.exists passes on every OSError
\* but ENOENT, ENOTDIR, EBADF and ELOOP, so the PermissionError of a root
\* directory that cannot be searched leaves extract_reel_from_metadata
ExistsRaises(tree) == tree # <<>> /\ ~tree[1].readable

\* _analyze_volume when line 626 raises: no handler is around the call, the
\* exception ends the worker thread and update_ui is never scheduled
AnalyzeFault ==
    /\ proc = "running"
    /\ apc = "started"
    /\ ExistsRaises(TreeOf(a_volume))
    /\ apc' = "dead"
    /\ UNCHANGED <<osVars, ctlVars, storeVars, volVars, reelVars, btnVars, scanVars,
                   a_volume, a_duplicates, renames, fVars>>

\* _analyze_volume, lines 623-630
AnalyzeMetadata ==
    /\ proc = "running"
    /\ apc = "started"
    /\ ~ExistsRaises(TreeOf(a_volume))
    /\ reel_numbers' = reel_numbers \cup ExtractReelFromMetadata(TreeOf(a_volume))
    /\ log' = log \cup ParseErrorLog(TreeOf(a_volume))
    /\ apc' = "metadata"
    /\ UNCHANGED <<osVars, proc, startup_error, mainpc, main_slot, storeVars, volVars,
                   reelVars, btnVars, video_files, a_volume, a_duplicates, renames, fVars>>

\* a variant of Flag that reports the whole history
FlagHistory(candidates, history) == history

\* the collision check of line 650
Flag(candidates, history) == candidates \cap history

\* _analyze_volume, lines 632-650 and the root.after of line 681
AnalyzeWalk ==
    /\ proc = "running"
    /\ apc = "metadata"
    /\ video_files' = video_files \o WalkVideoFiles(TreeOf(a_volume))
    /\ reel_numbers' = reel_numbers \cup WalkReels(TreeOf(a_volume))
    /\ a_duplicates' = Flag(reel_numbers', reel_history)
    /\ apc' = "posted"
    /\ UNCHANGED <<osVars, ctlVars, storeVars, volVars, reelVars, btnVars, a_volume,
                   renames, fVars>>

\* a variant of AnalyzeUpdateUI that commits the first candidate to the history
AnalyzeUpdateUICommits ==
    /\ MainIdle
    /\ apc = "posted"
    /\ IF reel_numbers # {}
       THEN /\ reel_values' = Sorted(reel_numbers)
            /\ selected_reel' = Sorted(reel_numbers)[1]
            /\ warning_label' = a_duplicates
            /\ rename_btn' = TRUE
            /\ reel_history' = reel_history \cup {Sorted(reel_numbers)[1]}
       ELSE UNCHANGED <<reel_values, selected_reel, warning_label, rename_btn, reel_history>>
    /\ analyze_btn' = TRUE
    /\ apc' = "idle"
    /\ a_volume' = NoText
    /\ a_duplicates' = {}
    /\ UNCHANGED <<osVars, ctlVars, config_file, last_reel, volVars, refresh_btn, scanVars,
                   renames, fVars>>

\* _analyze_volume.update_ui
AnalyzeUpdateUI ==
    /\ MainIdle
    /\ apc = "posted"
    /\ IF reel_numbers # {}
       THEN /\ reel_values' = Sorted(reel_numbers)
            /\ selected_reel' = Sorted(reel_numbers)[1]
            /\ warning_label' = a_duplicates
            /\ rename_btn' = TRUE
       ELSE UNCHANGED <<reel_values, selected_reel, warning_label, rename_btn>>
    /\ analyze_btn' = TRUE
    /\ apc' = "idle"
    /\ a_volume' = NoText
    /\ a_duplicates' = {}
    /\ UNCHANGED <<osVars, ctlVars, storeVars, volVars, refresh_btn, scanVars, renames,
                   fVars>>

(***************************************************************************)
(* Rename: do_rename, _do_rename on its worker thread, update_ui           *)
(***************************************************************************)
FreeSlots == {s \in Slots : renames[s].pc = "idle"}

\* do_rename, the user answering yes to every question asked: the duplicate
\* warning is asked iff check_reel_duplicate(new_name)
DoRename ==
    /\ MainIdle
    /\ rename_btn
    /\ FreeSlots # {}
    /\ selected_volume # NoText
    /\ selected_reel # NoText
    /\ selected_volume # selected_reel
    /\ LET s == CHOOSE x \in FreeSlots : \A y \in FreeSlots : x <= y
       IN  renames' = [renames EXCEPT ![s] =
                          [pc |-> "running", old |-> selected_volume, new |-> selected_reel,
                           success |-> FALSE, warned |-> CheckReelDuplicate(selected_reel)]]
    /\ rename_btn' = FALSE
    /\ UNCHANGED <<osVars, ctlVars, storeVars, volVars, reelVars, analyze_btn, refresh_btn,
                   scanVars, aVars, fVars>>

\* what the diskutil calls of _do_rename may report
ReturnCodes == {"zero", "nonzero", "timeout", "error"}

\* diskutil renamed the volume: the first call returned 0, or it did not, a
\* disk identifier was found and the second call returned 0
DiskutilRenamed(rc1, found_id, rc2) ==
    \/ rc1 = "zero"
    \/ rc1 = "nonzero" /\ found_id /\ rc2 = "zero"

\* a variant of RenameSuccess that takes only a nonzero return code for a failure
RenameSuccessUnlessNonzero(rc1, found_id, rc2) ==
    CASE rc1 = "nonzero" -> IF found_id THEN rc2 # "nonzero" ELSE FALSE
      [] OTHER -> TRUE

\* success as lines 716-744 compute it
RenameSuccess(rc1, found_id, rc2) ==
    CASE rc1 = "zero" -> TRUE
      [] rc1 = "nonzero" -> IF found_id THEN rc2 = "zero" ELSE FALSE
      [] OTHER -> FALSE

\* _do_rename on its worker thread, up to the root.after of line 769
RenameRun(s, rc1, found_id, rc2) ==
    /\ proc = "running"
    /\ renames[s].pc = "running"
    /\ LET r == renames[s]
           mounted == \E c \in DOMAIN cards : cards[c].name = r.old
       IN  /\ found_id => mounted
           /\ IF DiskutilRenamed(rc1, found_id, rc2)
              THEN /\ mounted
                   /\ \A c \in DOMAIN cards : cards[c].name # r.new
                   /\ cards' = [c \in DOMAIN cards |->
                                   IF cards[c].name = r.old
                                   THEN [cards[c] EXCEPT !.name = r.new]
                                   ELSE cards[c]]
              ELSE UNCHANGED cards
           /\ renames' = [renames EXCEPT ![s] =
                             [r EXCEPT !.pc = "posted",
                                       !.success = RenameSuccess(rc1, found_id, rc2)]]
    /\ UNCHANGED <<disk, settings, ctlVars, storeVars, volVars, reelVars, btnVars,
                   scanVars, aVars, fVars>>

\* _do_rename.update_ui when the rename failed, lines 761-767
RenameFailedUI(s) ==
    /\ MainIdle
    /\ renames[s].pc = "posted"
    /\ ~renames[s].success
    /\ rename_btn' = TRUE
    /\ renames' = [renames EXCEPT ![s] = IdleSlot]
    /\ UNCHANGED <<osVars, ctlVars, storeVars, volVars, reelVars, analyze_btn,
                   refresh_btn, scanVars, aVars, fVars>>

\* _do_rename.update_ui when the rename succeeded, lines 747-749:
\* save_last_reel(new_name)
RecordLastReel(s, outcome) ==
    /\ MainIdle
    /\ renames[s].pc = "posted"
    /\ renames[s].success
    /\ last_reel' = renames[s].new
    /\ SaveConfig(renames[s].new, reel_history, outcome)
    /\ mainpc' = "record"
    /\ main_slot' = s
    /\ UNCHANGED <<cards, settings, proc, startup_error, config_file, reel_history, volVars,
                   reelVars, btnVars, scanVars, aVars, renames, fVars>>

\* a variant of RecordHistory that keeps the new code only when the file was written
RecordHistoryIfSaved(outcome) ==
    /\ proc = "running"
    /\ mainpc = "record"
    /\ LET new == renames[main_slot].new
           kept == IF outcome = "ok" THEN reel_history \cup {new} ELSE reel_history
       IN  /\ reel_history' = kept
           /\ SaveConfig(last_reel, reel_history \cup {new}, outcome)
           /\ volume_paths' = ScanVolumes
           /\ volume_values' = ScanVolumes
           /\ selected_volume' \in
                  IF new \in ScanVolumes THEN {new}
                  ELSE RefreshSelection(ScanVolumes, selected_volume)
    /\ warning_label' = {}
    /\ rename_btn' = TRUE
    /\ renames' = [renames EXCEPT ![main_slot] = IdleSlot]
    /\ mainpc' = "idle"
    /\ main_slot' = 0
    /\ UNCHANGED <<cards, settings, proc, startup_error, config_file, last_reel,
                   selected_reel, reel_values, analyze_btn, refresh_btn, scanVars, aVars,
                   fVars>>

\* _do_rename.update_ui, lines 750-767: add_reel_to_history(new_name),
\* refresh_volumes(), the selection of the renamed volume
RecordHistory(outcome) ==
    /\ proc = "running"
    /\ mainpc = "record"
    /\ LET new == renames[main_slot].new
       IN  /\ reel_history' = reel_history \cup {new}
           /\ SaveConfig(last_reel, reel_history \cup {new}, outcome)
           /\ volume_paths' = ScanVolumes
           /\ volume_values' = ScanVolumes
           /\ selected_volume' \in
                  IF new \in ScanVolumes THEN {new}
                  ELSE RefreshSelection(ScanVolumes, selected_volume)
    /\ warning_label' = {}
    /\ rename_btn' = TRUE
    /\ renames' = [renames EXCEPT ![main_slot] = IdleSlot]
    /\ mainpc' = "idle"
    /\ main_slot' = 0
    /\ UNCHANGED <<cards, settings, proc, startup_error, config_file, last_reel,
                   selected_reel, reel_values, analyze_btn, refresh_btn, scanVars, aVars,
                   fVars>>

(***************************************************************************)
(* The specification                                                       *)
(*                                                                         *)
(* The refresh worker (DoRefresh, RefreshScan, RefreshUpdateUI) writes     *)
(* only volume_paths, the volume combobox and its own button.  With one    *)
(* card mounted it cannot select another volume than Startup and           *)
(* RecordHistory select, and Spec leaves its steps out.                    *)
(***************************************************************************)
Next ==
    \/ Startup
    \/ StartupFails
    \/ Exit
    \/ \E o \in WriteOutcomes : ClearHistory(o)
    \/ \E v \in volume_values : OnVolumeSelected(v)
    \/ \E r \in SeqToSet(reel_values) : SelectReel(r)
    \/ DoAnalysis
    \/ AnalyzeStart
    \/ AnalyzeMetadata
    \/ AnalyzeWalk
    \/ AnalyzeUpdateUI
    \/ DoRename
    \/ \E s \in Slots, rc1 \in ReturnCodes, found \in BOOLEAN, rc2 \in ReturnCodes :
           RenameRun(s, rc1, found, rc2)
    \/ \E s \in Slots : RenameFailedUI(s)
    \/ \E s \in Slots, o \in WriteOutcomes : RecordLastReel(s, o)
    \/ \E o \in WriteOutcomes : RecordHistory(o)

Spec == Init /\ [][Next]_vars

(***************************************************************************)
(* The scan specification: one volume of ScanTrees, no history file, and   *)
(* the steps of selection and analysis only                                *)
(***************************************************************************)
\* the fields of a process that is not running
ProcessOff ==
    /\ proc = "off"
    /\ startup_error = FALSE
    /\ mainpc = "idle"
    /\ main_slot = 0
    /\ log = {}
    /\ config_file = DefaultConfigPath
    /\ last_reel = NoText
    /\ reel_history = {}
    /\ volume_paths = {}
    /\ volume_values = {}
    /\ selected_volume = NoText
    /\ selected_reel = NoText
    /\ reel_values = <<>>
    /\ rename_btn = FALSE
    /\ analyze_btn = FALSE
    /\ refresh_btn = FALSE
    /\ warning_label = {}
    /\ video_files = <<>>
    /\ reel_numbers = {}
    /\ apc = "idle"
    /\ a_volume = NoText
    /\ a_duplicates = {}
    /\ renames = [s \in Slots |-> IdleSlot]
    /\ fpc = "idle"
    /\ f_volumes = {}

ScanInit ==
    /\ cards \in {<<[name |-> Untitled, tree |-> t]>> : t \in ScanTrees}
    /\ disk = [p \in Paths |-> AbsentFile]
    /\ settings = NoSettings
    /\ ProcessOff

ScanNext ==
    \/ Startup
    \/ \E v \in volume_values : OnVolumeSelected(v)
    \/ DoAnalysis
    \/ AnalyzeStart
    \/ AnalyzeMetadata
    \/ AnalyzeWalk
    \/ AnalyzeUpdateUI

ScanSpec == ScanInit /\ [][ScanNext]_vars

(***************************************************************************)
(* The pass specification: the volumes of the extraction cases and a       *)
(* volume whose root cannot be searched; selection and analysis only       *)
(***************************************************************************)
PassInit ==
    /\ cards \in {<<[name |-> Untitled, tree |-> t]>> :
                     t \in CaseTrees \cup {TreeUnreadableRoot}}
    /\ disk = [p \in Paths |-> AbsentFile]
    /\ settings = NoSettings
    /\ ProcessOff

PassNext ==
    \/ Startup
    \/ \E v \in volume_values : OnVolumeSelected(v)
    \/ DoAnalysis
    \/ AnalyzeStart
    \/ AnalyzeMetadata
    \/ AnalyzeFault
    \/ AnalyzeWalk
    \/ AnalyzeUpdateUI

PassSpec == PassInit /\ [][PassNext]_vars

(***************************************************************************)
(* The selection specification: two cards mounted together, whose trees    *)
(* hold different codes or none, no history file, and the refresh worker   *)
(* beside selection, analysis and the start of a rename                    *)
(***************************************************************************)
SelectSetups ==
    { <<[name |-> NoName, tree |-> TreeFiles], [name |-> Untitled, tree |-> TreeMeta]>>,
      <<[name |-> NoName, tree |-> TreeFiles], [name |-> Untitled, tree |-> TreeNone]>> }

SelectInit ==
    /\ cards \in SelectSetups
    /\ disk = [p \in Paths |-> AbsentFile]
    /\ settings = NoSettings
    /\ ProcessOff

SelectNext ==
    \/ Startup
    \/ \E v \in volume_values : OnVolumeSelected(v)
    \/ \E r \in SeqToSet(reel_values) : SelectReel(r)
    \/ DoRefresh
    \/ RefreshScan
    \/ RefreshUpdateUI
    \/ DoAnalysis
    \/ AnalyzeStart
    \/ AnalyzeMetadata
    \/ AnalyzeWalk
    \/ AnalyzeUpdateUI
    \/ DoRename

SelectSpec == SelectInit /\ [][SelectNext]_vars

(***************************************************************************)
(* The path specification: one card, a history file that is absent or      *)
(* holds a record, a second location that is empty, and the change of the  *)
(* history file's location beside analysis, rename and restart             *)
(***************************************************************************)
PathInit ==
    /\ cards = <<[name |-> NoName, tree |-> TreeFiles]>>
    /\ disk \in {[p \in Paths |-> IF p = DefaultConfigPath THEN f ELSE AbsentFile] :
                    f \in {AbsentFile, RecordFile(C010, <<C010>>)}}
    /\ settings = NoSettings
    /\ ProcessOff

PathNext ==
    \/ Startup
    \/ Exit
    \/ \E new \in Paths, migrate \in BOOLEAN, copy \in WriteOutcomes, save \in WriteOutcomes :
           ChooseConfigPath(new, migrate, copy, save)
    \/ DoAnalysis
    \/ AnalyzeStart
    \/ AnalyzeMetadata
    \/ AnalyzeWalk
    \/ AnalyzeUpdateUI
    \/ DoRename
    \/ \E s \in Slots, rc1 \in ReturnCodes, found \in BOOLEAN, rc2 \in ReturnCodes :
           RenameRun(s, rc1, found, rc2)
    \/ \E s \in Slots : RenameFailedUI(s)
    \/ \E s \in Slots, o \in WriteOutcomes : RecordLastReel(s, o)
    \/ \E o \in WriteOutcomes : RecordHistory(o)

PathSpec == PathInit /\ [][PathNext]_vars

(***************************************************************************)
(* Properties                                                              *)
(***************************************************************************)
\* the step is taken by a process that stays alive
Alive == proc = "running" /\ proc' = "running"

\* the history file of the running process
Durable == disk[config_file]

\* the history file holds last_reel and reel_history as they are in memory
DurableMatchesMemory ==
    /\ Durable.kind = "dict"
    /\ Durable.has_last /\ Durable.has_hist /\ Durable.hist_ok
    /\ Durable.last_reel = last_reel
    /\ SeqToSet(Durable.reel_history) = reel_history
    /\ Len(Durable.reel_history) = Cardinality(reel_history)

\* no rename worker is in flight or waiting for its update_ui
NoRename == \A s \in Slots : renames[s].pc = "idle"

\* C1: no step of an analysis pass (do_analysis, the steps of _analyze_volume
\* on the worker thread, its update_ui) changes last_reel, reel_history or
\* the history file, whatever the volume holds and whatever the history is.
AnalysisLeavesHistory ==
    [][(Alive /\ apc' # apc) => UNCHANGED <<last_reel, reel_history, disk>>]_vars

\* C1 witness: a pass has completed over a volume with candidates, some of
\* them in a non-empty history
AnalysisCompletedOverHistory ==
    /\ proc = "running"
    /\ apc = "idle"
    /\ reel_values # <<>>
    /\ warning_label # {}
    /\ warning_label \subseteq reel_history

\* C2: last_reel is set and a code is added to reel_history only by the
\* update_ui of a rename whose success flag is set, and only to that rename's
\* code; the flag is set only when diskutil renamed the volume to that code;
\* the update_ui of a rename that failed, timed out or raised leaves
\* last_reel, reel_history and the history file as they were.
RecordOnlyAfterRenameSuccess ==
    /\ [][(Alive /\ (last_reel' # last_reel \/ ~(reel_history' \subseteq reel_history)))
            => \E s \in Slots :
                  /\ renames[s].pc = "posted"
                  /\ renames[s].success
                  /\ last_reel' \in {last_reel, renames[s].new}
                  /\ reel_history' \subseteq reel_history \cup {renames[s].new}]_vars
    /\ [][\A s \in Slots :
            (Alive /\ renames[s].pc = "running" /\ renames'[s].pc = "posted"
                   /\ renames'[s].success)
            => \E c \in DOMAIN cards :
                  cards[c].name = renames[s].old /\ cards'[c].name = renames[s].new]_vars
    /\ [][\A s \in Slots :
            (Alive /\ renames[s].pc = "posted" /\ ~renames[s].success
                   /\ renames'[s].pc = "idle")
            => UNCHANGED <<last_reel, reel_history, disk>>]_vars

\* C2 witness: one rename succeeded and was recorded, a later one failed and
\* waits for its update_ui
RecordedThenFailedRename ==
    /\ \E c \in DOMAIN cards : cards[c].name = last_reel
    /\ last_reel \in reel_history
    /\ \E s \in Slots : renames[s].pc = "posted" /\ ~renames[s].success

\* C3: when the update_ui of a successful rename to c ends, last_reel is c
\* and c is in reel_history, so check_reel_duplicate(c) is true, whatever
\* became of the two writes; a code leaves reel_history only when
\* clear_history empties it; and the collision check of an analysis pass
\* reports every candidate that is in reel_history.
RecordedCodeStaysVisible ==
    /\ [][(Alive /\ mainpc = "record" /\ mainpc' = "idle")
            => \E c \in {renames[main_slot].new} :
                  /\ last_reel' = c
                  /\ c \in reel_history'
                  /\ CheckReelDuplicate(c)']_vars
    /\ [][(Alive /\ ~(reel_history \subseteq reel_history')) => reel_history' = {}]_vars
    /\ [][(Alive /\ apc # "posted" /\ apc' = "posted")
            => \A c \in reel_history : c \in reel_numbers' => c \in a_duplicates']_vars

\* C3 witness: a code was recorded although the history file does not hold
\* it, and a later analysis pass flagged it
RecordedCodeFlaggedUnsaved ==
    /\ proc = "running"
    /\ mainpc = "idle"
    /\ last_reel \in reel_history
    /\ last_reel \in a_duplicates
    /\ "save_failed" \in log
    /\ ~DurableMatchesMemory

\* a step of clear_history, the user having confirmed
ClearStep == Alive /\ reel_history # {} /\ reel_history' = {}

HistoryRoundTrip ==
    /\ [][(Alive /\ mainpc = "record" /\ mainpc' = "idle")
            => /\ ("save_failed" \notin log')
                    => /\ DurableMatchesMemory'
                       /\ Durable'.last_reel = renames[main_slot].new
                       /\ renames[main_slot].new \in SeqToSet(Durable'.reel_history)
               /\ (Durable' \notin {Durable, CorruptFile}) => DurableMatchesMemory']_vars
    /\ [][proc' = "off" => disk' = disk]_vars
    /\ [][(proc = "off" /\ proc' = "running")
            => \E f \in {disk[DefaultConfigPath]} :
                  (f.kind = "dict" /\ f.has_last /\ f.has_hist /\ f.hist_ok)
                  => /\ last_reel' = f.last_reel
                     /\ reel_history' = SeqToSet(f.reel_history)
                     /\ \A i \in 1..Len(f.reel_history) :
                           CheckReelDuplicate(f.reel_history[i])']_vars

\* C5 witness: the process has ended after a rename to C010 was recorded and
\* written with an earlier code beside it; the next start loads that file
RecordWrittenProcessEnded ==
    /\ proc = "off"
    /\ disk[DefaultConfigPath].kind = "dict"
    /\ disk[DefaultConfigPath].last_reel = C010
    /\ Len(disk[DefaultConfigPath].reel_history) = 2
    /\ C010 \in SeqToSet(disk[DefaultConfigPath].reel_history)

\* C6 as stated: no start of the process ends in an uncaught exception,
\* whatever the history file holds
StartupNeverFails == ~startup_error

\* C7: a step that changes last_reel or reel_history and leaves the history
\* file without that change has logged the failed write, and the change
\* stays in memory; every write that lands puts the whole of last_reel and
\* reel_history, as they are in memory, in the file; and the update_ui of a
\* rename ends with the code recorded in memory whatever the writes did.
FailedWriteKeepsMutation ==
    /\ [][(Alive /\ <<last_reel, reel_history>>' # <<last_reel, reel_history>>)
            => (DurableMatchesMemory' \/ "save_failed" \in log')]_vars
    /\ [][(Alive /\ disk' # disk)
            => (Durable' = CorruptFile \/ DurableMatchesMemory')]_vars
    /\ [][(Alive /\ mainpc = "record" /\ mainpc' = "idle")
            => /\ renames[main_slot].new \in reel_history'
               /\ last_reel' = last_reel]_vars
    /\ [][Alive => log \subseteq log']_vars

\* C7 witness: a write failed, later codes were recorded, and the history
\* file holds everything that is in memory
LaterWriteHoldsEverything ==
    /\ proc = "running"
    /\ mainpc = "idle"
    /\ "save_failed" \in log
    /\ Cardinality(reel_history) >= 2
    /\ last_reel \in reel_history
    /\ DurableMatchesMemory

\* C8: the duplicates an analysis pass computes are exactly the candidates
\* (reel_numbers at line 650) that are in reel_history, so none when either
\* set is empty, and its update_ui, when it presents candidates, names
\* exactly these codes in warning_label.
FlaggedIsIntersection ==
    /\ [][(Alive /\ apc # "posted" /\ apc' = "posted")
            => /\ a_duplicates' = {c \in reel_numbers' : c \in reel_history}
               /\ (reel_numbers' = {} \/ reel_history = {}) => a_duplicates' = {}]_vars
    /\ [][(Alive /\ apc = "posted" /\ apc' = "idle" /\ reel_numbers # {})
            => warning_label' = a_duplicates]_vars

\* C8 witness: with A001 the only code of the history, a pass over a volume
\* whose candidates are A001 and D004 has flagged A001 only
FlaggedA001Only ==
    /\ apc = "posted"
    /\ reel_history = {A001}
    /\ reel_numbers = {A001, D004}
    /\ a_duplicates = {A001}

\* the update_ui of an analysis pass that found candidates
PresentStep == Alive /\ apc = "posted" /\ apc' = "idle" /\ reel_numbers # {}

\* C9: the update_ui of a pass that found candidates enables the rename
\* button also when the code it selects is in reel_history; do_rename starts
\* a rename to a code of reel_history only after the user confirmed the
\* duplicate warning; and the step that starts a rename changes neither the
\* history nor its file.
DuplicateIsAdvisory ==
    /\ [][PresentStep => rename_btn']_vars
    /\ [][\A s \in Slots :
            (Alive /\ renames[s].pc = "idle" /\ renames'[s].pc = "running")
            => /\ renames'[s].new \in reel_history => renames'[s].warned
               /\ UNCHANGED <<last_reel, reel_history, disk>>]_vars

\* C9 witness: a rename to a code of the history is running, started after
\* the duplicate warning was confirmed
DuplicateRenameStarted ==
    \E s \in Slots :
        /\ renames[s].pc = "running"
        /\ renames[s].new \in reel_history
        /\ renames[s].warned
        /\ renames[s].new \in warning_label

\* C10 as stated: when the worker of an analysis pass posts its result, and
\* no rename has touched the volume during the pass, reel_numbers is the
\* union of the codes of the metadata files and the codes at the start of
\* the media file names of the analysed volume.
CandidatesAreUnion ==
    [][(Alive /\ apc # "posted" /\ apc' = "posted" /\ NoRename /\ last_reel = NoText
          /\ \E c \in DOMAIN cards : cards[c].name = a_volume)
         => reel_numbers' = ExtractReelFromMetadata(TreeOf(a_volume))
                              \cup WalkReels(TreeOf(a_volume))]_vars

\* a sequence of strings in strictly ascending lexicographic order
Ascending(q) == \A i, j \in 1..Len(q) : i < j => StrLess(q[i], q[j])

\* the codes of the two sources of the volume a pass analyses
VolumeCodes(tree) == ExtractReelFromMetadata(tree) \cup WalkReels(tree)

\* C11 as stated: the sequence the update_ui of a pass leaves in reel_combo
\* is the candidate set in ascending order without repeats, and every pass
\* over the unchanged volume presents the same sequence: the one an
\* undisturbed pass computes from the volume.
SameSequenceEveryPass ==
    [][(Alive /\ apc = "posted" /\ apc' = "idle")
         => /\ Ascending(reel_values')
            /\ SeqToSet(reel_values') = reel_numbers
            /\ reel_values' = Sorted(VolumeCodes(TreeOf(a_volume)))]_vars

\* the letters A-Z
UpperLetters == {UpperSeq[i] : i \in 1..Len(UpperSeq)}

\* the first four characters of n are one uppercase letter and three digits
FirstFourIsCode(n) ==
    /\ Len(n) >= 4
    /\ n[1] \in UpperLetters
    /\ n[2] \in Digits /\ n[3] \in Digits /\ n[4] \in Digits

\* the step of the worker that walks the volume and posts the result
WalkStep == Alive /\ apc = "metadata" /\ apc' = "posted"

\* C12: the codes the filename scan adds to reel_numbers are the first four
\* characters of exactly those scanned media file names whose first four
\* characters are an uppercase letter and three digits: the anchored match
\* succeeds on no other name, and what it extracts is never longer than
\* these four characters.
AnchoredMatchIsFirstFour ==
    [][WalkStep
         => reel_numbers' =
               reel_numbers \cup {SubSeq(n, 1, 4) :
                                    n \in {m \in SeqToSet(video_files') : FirstFourIsCode(m)}}]_vars

\* C12 witness: the scan of A0000.mov, a letter and four digits, has
\* extracted A000
FiveCharactersScanned ==
    /\ apc = "posted"
    /\ video_files = << <<"A","0","0","0","0">> \o DotMov >>
    /\ reel_numbers = { <<"A","0","0","0">> }

\* n does not begin with a dot and ends, whatever the case of its letters,
\* with one of the media extensions
IsMediaName(n) ==
    /\ Len(n) = 0 \/ n[1] # "."
    /\ \E e \in { <<".","m","x","f">>, <<".","m","o","v">>, <<".","m","p","4">>,
                  <<".","r","3","d">>, <<".","a","r","i">>, <<".","b","r","a","w">> } :
          /\ Len(n) > Len(e)
          /\ Lower(SubSeq(n, Len(n) - Len(e) + 1, Len(n))) = e

\* the files the walk of the tree lists, directory by directory
Listed(tree) == FilesOf(tree, 1, [kind |-> "walk"])

\* C13: the filename scan appends to video_files exactly the listed files
\* whose name does not begin with a dot and whose extension, compared
\* without regard to case, is a media extension, and adds to reel_numbers
\* exactly the anchored matches on these names; over A001_clip01.mov,
\* A001_clip02.mov, B002_clip01.mxf and readme.txt it counts 3 media files
\* and ends with the codes A001 and B002.
ScanFiltersMediaFiles ==
    [][WalkStep
         => LET fs == Listed(TreeOf(a_volume))
                media == {i \in 1..Len(fs) : IsMediaName(fs[i].name)}
            IN  /\ video_files = <<>>
                /\ Len(video_files') = Cardinality(media)
                /\ SeqToSet(video_files') = {fs[i].name : i \in media}
                /\ reel_numbers' = reel_numbers \cup
                      ({REEL_match(fs[i].name) : i \in media} \ {NoMatch})
                /\ TreeOf(a_volume) = TreeScenarioA
                     => Len(video_files') = 3 /\ reel_numbers' = {A001, B002}]_vars

\* C13 witness: the scan of the four files has counted three media files
\* and found A001 and B002
ScenarioAScanned ==
    /\ apc = "posted"
    /\ TreeOf(a_volume) = TreeScenarioA
    /\ Len(video_files) = 3
    /\ reel_numbers = {A001, B002}

\* the directory at path p and every directory on the way to it from the
\* root can be listed
Listable(tree, p) ==
    \A k \in 0..Len(p) :
        \A i \in 1..Len(tree) : tree[i].path = SubSeq(p, 1, k) => tree[i].readable

\* C14: a directory that cannot be listed is skipped with everything below
\* it, and the walk goes on: every media file of every directory that can
\* be listed, the siblings of the unreadable one and the directories after
\* it included, is in video_files and its code is in reel_numbers when the
\* walk ends.
UnreadableDirSkipped ==
    [][WalkStep
         => LET tree == TreeOf(a_volume)
            IN  \A i \in 1..Len(tree) : \A k \in 1..Len(tree[i].files) :
                   LET n == tree[i].files[k].name
                   IN  IF Listable(tree, tree[i].path)
                       THEN IsMediaName(n)
                              => /\ n \in SeqToSet(video_files')
                                 /\ FirstFourIsCode(n) => SubSeq(n, 1, 4) \in reel_numbers'
                       ELSE n \notin SeqToSet(video_files')]_vars

\* C14 witness: the walk over the tree with the unreadable directory P has
\* ended with the codes of the root, of R and of R/S
WalkedPastUnreadableDir ==
    /\ apc = "posted"
    /\ TreeOf(a_volume) = TreeUnreadableDir
    /\ Len(video_files) = 3
    /\ reel_numbers = {A001, B002, D004}

\* n is a name of the RED source: it ends in .RDC or .RMD
IsRedName(n) ==
    /\ Len(n) >= 4
    /\ SubSeq(n, Len(n) - 3, Len(n)) \in {<<".","R","D","C">>, <<".","R","M","D">>}

\* file f of directory d is a metadata file of the c-th configured source:
\* MEDIAPRO.XML or DISCMETA.XML under the root, CANON/*/CLIPINFO.XML,
\* CONTENTS/CLIP/*/CLIPINFO.XML, or a .RDC or .RMD file under the root
BelongsTo(d, f, c) ==
    CASE c = 1 -> d.path = <<>> /\ f.name \in {MEDIAPRO_XML, DISCMETA_XML}
      [] c = 2 -> Len(d.path) = 2 /\ d.path[1] = "CANON" /\ f.name = CLIPINFO_XML
      [] c = 3 -> /\ Len(d.path) = 3 /\ d.path[1] = "CONTENTS" /\ d.path[2] = "CLIP"
                  /\ f.name = CLIPINFO_XML
      [] c = 4 -> d.path = <<>> /\ IsRedName(f.name)

\* the metadata files of the tree: <<i, k, c>> for the k-th file of the i-th
\* directory, a file of source c in a directory that can be listed
MetadataFiles(tree) ==
    { x \in UNION { {<<i, k, c>> : k \in 1..Len(tree[i].files), c \in 1..4} :
                     i \in 1..Len(tree) } :
        /\ Listable(tree, tree[x[1]].path)
        /\ BelongsTo(tree[x[1]], tree[x[1]].files[x[2]], x[3]) }

\* the file of such a triple, whether its parse fails, and the codes a file
\* that parses holds
FileAt(tree, x) == tree[x[1]].files[x[2]]

Unusable(tree, x) == ParseFails(FileAt(tree, x), METADATA_CONFIG[x[3]].is_text)

FileCodes(tree, x) ==
    IF METADATA_CONFIG[x[3]].is_text
    THEN ParseTextMetadata(FileAt(tree, x))
    ELSE ParseXmlMetadata(FileAt(tree, x), METADATA_CONFIG[x[3]].tags)

\* the step of the worker that extracts the metadata
MetadataStep == Alive /\ apc = "started" /\ apc' = "metadata"

\* C15 as stated: a metadata file that cannot be read or parsed is logged
\* and nothing is logged when there is none; and when the pass over a volume
\* with such a file ends, the codes of every other metadata file of every
\* configured source and the codes of the media file names are in
\* reel_numbers.
BadMetadataFileSkipped ==
    /\ [][MetadataStep
            => LET tree == TreeOf(a_volume)
               IN  IF \E x \in MetadataFiles(tree) : Unusable(tree, x)
                   THEN "parse_error" \in log'
                   ELSE log' = log]_vars
    /\ [][WalkStep
            => LET tree == TreeOf(a_volume)
               IN  (\E x \in MetadataFiles(tree) : Unusable(tree, x))
                   => /\ \A x \in MetadataFiles(tree) : FileCodes(tree, x) \subseteq reel_numbers'
                      /\ \A n \in SeqToSet(video_files') :
                            FirstFourIsCode(n) => SubSeq(n, 1, 4) \in reel_numbers']_vars

\* C16 as stated: the steps of an analysis pass before its scan has ended
\* (the start of the worker and its metadata extraction) leave reel_numbers,
\* video_files, last_reel, reel_history and the history file as they were
\* before the pass.
PassInProgressKeepsSharedState ==
    [][(Alive /\ apc' # apc /\ apc' \in {"spawned", "started", "metadata"})
         => UNCHANGED <<reel_numbers, video_files, last_reel, reel_history, disk>>]_vars

\* at position i of s stand one uppercase letter and exactly three digits:
\* no fourth digit follows
ExactAt(s, i) ==
    /\ i >= 1 /\ i + 3 <= Len(s)
    /\ s[i] \in UpperLetters
    /\ s[i + 1] \in Digits /\ s[i + 2] \in Digits /\ s[i + 3] \in Digits
    /\ i + 4 <= Len(s) => s[i + 4] \notin Digits

\* the texts a metadata file offers to the pattern: the text of its
\* elements, or its content
FileTexts(f) ==
    IF f.kind = "xml" THEN {f.elems[j].text : j \in 1..Len(f.elems)}
    ELSE IF f.kind = "text" THEN {f.content}
    ELSE {}

\* C17 as stated: every code the filename scan adds stands at the start of
\* a media file name as a letter and exactly three digits, and every code the
\* metadata extraction adds stands in a text of a file of the volume as a
\* letter and exactly three digits: a letter followed by four digits, or a
\* lowercase letter, gives no code.
ExactlyThreeDigits ==
    /\ [][WalkStep
            => \A c \in reel_numbers' \ reel_numbers :
                  \E n \in SeqToSet(video_files') : ExactAt(n, 1) /\ SubSeq(n, 1, 4) = c]_vars
    /\ [][MetadataStep
            => \A c \in reel_numbers' \ reel_numbers :
                  \E d \in 1..Len(TreeOf(a_volume)) :
                     \E k \in 1..Len(TreeOf(a_volume)[d].files) :
                        \E t \in FileTexts(TreeOf(a_volume)[d].files[k]) :
                           \E i \in 1..Len(t) : ExactAt(t, i) /\ SubSeq(t, i, i + 3) = c]_vars

\* an occurrence of the pattern in s: a letter and three digits from i on
OccursAt(s, i) ==
    /\ i >= 1 /\ i + 3 <= Len(s)
    /\ s[i] \in UpperLetters
    /\ s[i + 1] \in Digits /\ s[i + 2] \in Digits /\ s[i + 3] \in Digits

\* C18 as stated: after the metadata extraction, for every well-formed XML
\* metadata file of a source and every element of it whose tag is in the
\* tag list of the source and whose text is not empty, every occurrence of
\* the pattern in that text is in reel_numbers.
AllTagMatchesCollected ==
    [][MetadataStep
         => LET tree == TreeOf(a_volume)
            IN  \A x \in MetadataFiles(tree) :
                   (~METADATA_CONFIG[x[3]].is_text /\ FileAt(tree, x).kind = "xml")
                   => \A j \in 1..Len(FileAt(tree, x).elems) :
                         LET e == FileAt(tree, x).elems[j]
                         IN  (e.tag \in SeqToSet(METADATA_CONFIG[x[3]].tags) /\ e.text # <<>>)
                             => \A i \in 1..Len(e.text) :
                                   OccursAt(e.text, i)
                                   => SubSeq(e.text, i, i + 3) \in reel_numbers']_vars

\* C19 as stated: the metadata extraction reads every metadata file of
\* every configured source (the named files under the root, the CLIPINFO.XML
\* files below CANON/* and CONTENTS/CLIP/*, and the .RDC and .RMD files
\* under the root), so that the codes of each of them, and every code in
\* the content of a .RDC or .RMD file, are in reel_numbers.
MetadataFilesLocated ==
    [][MetadataStep
         => LET tree == TreeOf(a_volume)
            IN  \A x \in MetadataFiles(tree) :
                   /\ FileCodes(tree, x) \subseteq reel_numbers'
                   /\ (x[3] = 4 /\ FileAt(tree, x).kind = "text")
                        => \A i \in 1..Len(FileAt(tree, x).content) :
                              OccursAt(FileAt(tree, x).content, i)
                              => SubSeq(FileAt(tree, x).content, i, i + 3) \in reel_numbers']_vars

\* the history file f holds c as its last_reel; f holds c in its reel_history
HoldsLast(f, c) == f.kind = "dict" /\ f.has_last /\ f.last_reel = c

HoldsCode(f, c) == f.kind = "dict" /\ f.has_hist /\ f.hist_ok /\ c \in SeqToSet(f.reel_history)

\* C20 as stated: after each of the two steps of the record of a code c
\* (save_last_reel, then add_reel_to_history) the history file, which is
\* what a crash at that point leaves behind, holds c as last_reel and c in
\* reel_history, or neither.
RecordIsAtomicOnDisk ==
    /\ [][(Alive /\ mainpc = "idle" /\ mainpc' = "record")
            => (HoldsLast(Durable', renames[main_slot'].new)
                  <=> HoldsCode(Durable', renames[main_slot'].new))]_vars
    /\ [][(Alive /\ mainpc = "record" /\ mainpc' = "idle")
            => (HoldsLast(Durable', renames[main_slot].new)
                  <=> HoldsCode(Durable', renames[main_slot].new))]_vars

\* the pass is at a point from which the worker thread, and then Tk with the
\* callback the worker scheduled, still have its remaining steps to take
PassPending == apc \in {"spawned", "started", "metadata", "posted"}

\* C21 as stated: every analysis pass that do_analysis starts ends in its
\* completion callback, which enables the analysis again, whatever the
\* metadata lookup and the walk meet.  In a running process the analysis is
\* therefore disabled only while a pass is pending: no pass ends without
\* its callback scheduled.
StartedPassIsDelivered ==
    (proc = "running" /\ ~analyze_btn) => PassPending

\* a rename is in flight: do_rename started its thread and the completion
\* callback of that thread has not finished
RenameInFlight == \E s \in Slots : renames[s].pc # "idle"

\* C23 as stated: from do_rename starting a rename thread until that
\* rename's completion callback, the rename button stays disabled, whatever
\* other callbacks run in between (so no second rename can be started).
RenameDisabledWhileInFlight ==
    RenameInFlight => ~rename_btn

\* C24: whenever the analysis can be started (analyze_btn is enabled) no
\* pass is in flight, so do_analysis never starts a worker thread while
\* another pass is between its start and its completion callback, and the
\* shared fields have one writing pass at a time.
OnePassInFlight ==
    (proc = "running" /\ analyze_btn) => apc = "idle"

\* a second pass on the volume is running its walk while the candidates of
\* the first are on display, and the analysis cannot be started
SecondPassRunning ==
    /\ apc = "metadata"
    /\ reel_values # <<>>
    /\ ~analyze_btn

\* do_rename starts the rename thread of slot s
RenameStarts(s) == Alive /\ renames[s].pc = "idle" /\ renames'[s].pc = "running"

\* C22 as stated: while a mounted volume is selected and the rename is
\* enabled, the codes on offer in reel_combo are codes of that volume, and a
\* rename that is started gives the volume one of its own codes, whatever
\* the order of selections, refreshes and analysis steps before.
OfferedCodesOfSelectedVolume ==
    /\ []((proc = "running" /\ rename_btn /\ selected_volume \in ScanVolumes)
            => SeqToSet(reel_values) \subseteq VolumeCodes(TreeOf(selected_volume)))
    /\ [][\A s \in Slots :
            RenameStarts(s) =>
                renames'[s].new \in VolumeCodes(TreeOf(renames'[s].old))]_vars

\* the completion callback of an analysis pass runs
CompletionStep == Alive /\ apc = "posted" /\ apc' = "idle"

\* C25 as stated: whenever the rename is enabled the selected code is one of
\* the candidates on offer, which are those of the last completed pass; a
\* pass that completes with candidates leaves one of them selected, and a
\* pass that completes with none leaves no code selected and the rename
\* disabled.
SelectedIsCandidateOfLastPass ==
    /\ []((proc = "running" /\ rename_btn) => selected_reel \in SeqToSet(reel_values))
    /\ [][CompletionStep =>
            IF reel_numbers = {}
            THEN selected_reel' = NoText /\ ~rename_btn'
            ELSE rename_btn' => selected_reel' \in reel_numbers]_vars

\* what a restart of the process would load as last_reel and reel_history
\* from the files d under the settings st
RestartLast(d, st) == ConfigLastReel(LoadJsonFile(d[SettingsPath(st)]))

RestartHistory(d, st) == ConfigReelHistory(LoadJsonFile(d[SettingsPath(st)]))

\* choose_config_path ran to its end and changed the active path
PathChanged == Alive /\ config_file' # config_file

\* choose_config_path logged a failed migration
MigrationFailed == Alive /\ "migrate_failed" \in log' /\ "migrate_failed" \notin log

\* C26 as stated: when a restart would have loaded the in-memory last_reel
\* and reel_history before choose_config_path changed the location, it loads
\* the same afterwards, with the migration accepted, declined or not offered;
\* and a migration whose copy fails leaves the active path and the saved
\* settings as they were.
PathChangeKeepsHistory ==
    /\ [][(PathChanged /\ RestartLast(disk, settings) = last_reel
                       /\ RestartHistory(disk, settings) = reel_history)
            => /\ RestartLast(disk', settings') = last_reel'
               /\ RestartHistory(disk', settings') = reel_history']_vars
    /\ [][MigrationFailed => UNCHANGED <<config_file, settings>>]_vars

====
